---------------------------- MODULE Spec2Model ----------------------------
(***************************************************************************)
(* Model of pkg/metrics/span_metric.go (metrics derived from spans) and of *)
(* the UPQL token stream (package ast: lexer, Token).                      *)
(*                                                                         *)
(* Four specifications share the variables below:                          *)
(*   SpecWhere  compileSpanMetricWhere applied to parsed where clauses     *)
(*   SpecView   the create-view statement createMatView builds of a metric *)
(*   SpecLexer  the lexer driven by PeekToken / NextToken / Pos / ResetPos *)
(*   Spec       initSpanMetrics run over a list of span metrics against    *)
(*              the store (metric records and materialized views)          *)
(* Each specification keeps the variables of the others at rest.           *)
(***************************************************************************)
EXTENDS Integers, Sequences, FiniteSets, TLC

VARIABLES
    \* ---- compileSpanMetricWhere
    whereParts,   \* what tracingupql.Parse returned for the where clause
    whereRes,     \* the (ch.Ident, error) pair returned, or NotRun
    \* ---- createMatView, the statement it builds
    mvMetric,     \* the bunconf.SpanMetric compiled
    mvRes,        \* the create-view statement built or the error, or NoBuild
    \* ---- lexer
    s,            \* lexer.s, the source, a sequence of bytes
    ignoreSpaces, \* lexer.ignoreSpaces
    lexI,         \* position of the embedded bunlex.Lexer in s
    tokens,       \* lexer.tokens, the look-ahead cache
    pos,          \* lexer.pos
    saved,        \* values returned by Pos() so far (held by the parser)
    ret,          \* what the last PeekToken / NextToken call returned
    firstRet,     \* per position, the token NextToken returned there first
    \* ---- initSpanMetrics
    views,        \* store: view name -> view definition, or NoView
    metas,        \* store: names of the metric records upserted
    done,         \* names of the metrics of the config already processed
    made,         \* names of the metrics createSpanMetric returned nil for
    last,         \* the last createSpanMetric call: metric, error, statements
    initErr       \* what initSpanMetrics returned, "" while it runs

whereVars == <<whereParts, whereRes>>
mvVars    == <<mvMetric, mvRes>>
lexVars   == <<s, ignoreSpaces, lexI, tokens, pos, saved, ret, firstRet>>
storeVars == <<views, metas, done, made, last, initErr>>
vars      == <<whereParts, whereRes, mvMetric, mvRes, s, ignoreSpaces, lexI, tokens, pos, saved,
               ret, firstRet, views, metas, done, made, last, initErr>>

\* ---------------------------------------------------------------- bounds
MaxConds == 3
MaxLen   == 3     \* bytes of lexer source
MaxPos   == 3     \* NextToken is not called beyond this position

\* ------------------------------------------------------------- constants
spanMetricMinutes == 1

(***************************************************************************)
(* WHERE compilation                                                       *)
(***************************************************************************)

NotRun == [out |-> "", err |-> "not run"]

\* A []byte that is nil, and one holding text.
NilBytes == [isNil |-> TRUE, bytes |-> ""]
Bytes(t) == [isNil |-> FALSE, bytes |-> t]

\* tracingupql.Name of a condition's left side, as text.
NameText(name) ==
    IF name.FuncName = "" THEN name.AttrKey
    ELSE name.FuncName \o "(" \o name.AttrKey \o ")"

CondText(left, op, right) == NameText(left) \o " " \o op \o " " \o right

\* The conditions of the model. Compiled is what the collaborator
\* tracing.CompileCond returns for the condition: its SQL text, or nil.
Lefts ==
    { [FuncName |-> "", AttrKey |-> "x"],
      [FuncName |-> "", AttrKey |-> "y"],
      [FuncName |-> "p50", AttrKey |-> "duration"] }

RightOf(left) ==
    IF left.AttrKey = "x" THEN "1" ELSE IF left.AttrKey = "y" THEN "2" ELSE "5"

OpOf(left) == IF left.FuncName = "" THEN "=" ELSE ">"

\* tracingupql.AndOp, tracingupql.OrOp: the text of a separator's logical
\* operator. The compiler puts one space after it and none before it, so the
\* text itself starts with the space that parts it from what precedes.
AndOp == " AND"
OrOp  == " OR"

Seps == [Op : {AndOp, OrOp}, Negate : BOOLEAN]

Conds ==
    { [Left |-> l, Op |-> OpOf(l), Right |-> RightOf(l), Sep |-> sep, Compiled |-> c] :
        l \in Lefts, sep \in Seps, c \in {"text", "nil"} }

\* tracing.CompileCond(cond, minutes): external collaborator.
CompileCond(cond, minutes) ==
    IF cond.Compiled = "nil" THEN NilBytes
    ELSE Bytes(CondText(cond.Left, cond.Op, cond.Right))

\* tracing.IsAggColumn(name): external classifier; a function applied to an
\* attribute is an aggregate.
IsAggColumn(name) == name.FuncName # ""

\* line 248: if bb == nil { continue }
SkipCondNever(bb) == FALSE
SkipCond(bb) == bb.isNil

\* lines 256-259: the separator's operator, once something was accumulated.
AppendSepAlways(b, cond) == b \o cond.Sep.Op \o " "
AppendSep(b, cond) ==
    IF Len(b) > 0 THEN b \o cond.Sep.Op \o " " ELSE b

\* lines 260-262
AppendNegate(b, cond) ==
    IF cond.Sep.Negate THEN b \o "NOT " ELSE b

\* lines 244-266: the loop over ast.Conds, from condition i with buffer b.
RECURSIVE WhereLoop(_, _, _)
WhereLoop(conds, i, b) ==
    IF i > Len(conds) THEN [out |-> b, err |-> ""]
    ELSE LET cond == conds[i]
             bb   == CompileCond(cond, spanMetricMinutes)
         IN  IF SkipCond(bb) THEN WhereLoop(conds, i + 1, b)
             ELSE IF IsAggColumn(cond.Left)
                  THEN [out |-> "", err |-> "can't filter by agg columns"]
                  ELSE WhereLoop(conds, i + 1,
                                 AppendNegate(AppendSep(b, cond), cond) \o bb.bytes)

\* lines 234-266, on the parts tracingupql.Parse returns for the clause.
compileSpanMetricWhereParts(parts) ==
    IF Len(parts) # 1 THEN [out |-> "", err |-> "can't parse metric where"]
    ELSE IF parts[1].kind # "Where"
         THEN [out |-> "", err |-> "can't parse metric where"]
         ELSE WhereLoop(parts[1].Conds, 1, "")

WherePart(conds) == [kind |-> "Where", Conds |-> conds]
GroupPart == [kind |-> "Grouping", Conds |-> <<>>]

CondLists == UNION { [1..n -> Conds] : n \in 0..MaxConds }

CondX(sep) ==
    [Left |-> [FuncName |-> "", AttrKey |-> "x"], Op |-> "=", Right |-> "1",
     Sep |-> sep, Compiled |-> "text"]
CondY(sep, compiled) ==
    [Left |-> [FuncName |-> "", AttrKey |-> "y"], Op |-> "=", Right |-> "2",
     Sep |-> sep, Compiled |-> compiled]
CondAgg(sep) ==
    [Left |-> [FuncName |-> "p50", AttrKey |-> "duration"], Op |-> ">", Right |-> "5",
     Sep |-> sep, Compiled |-> "text"]

PlainSep == [Op |-> AndOp, Negate |-> FALSE]

\* tracingupql.Parse(where), on the clauses the modelled metrics use: the
\* parts of a clause, none for text that does not parse.
tracingupqlParse(where) ==
    IF where = "where x = 1" THEN <<WherePart(<<CondX(PlainSep)>>)>>
    ELSE IF where = "where x = 1 or not y = 2"
    THEN <<WherePart(<<CondX(PlainSep), CondY([Op |-> OrOp, Negate |-> TRUE], "text")>>)>>
    ELSE IF where = "where y = 2" THEN <<WherePart(<<CondY(PlainSep, "nil")>>)>>
    ELSE IF where = "where p50(duration) > 5" THEN <<WherePart(<<CondAgg(PlainSep)>>)>>
    ELSE IF where = "where group by x" THEN <<GroupPart>>
    ELSE <<>>

\* lines 229-231: strings.HasPrefix(where, "where "), then the keyword added.
NormalizeWhere(where) ==
    IF where \in {"where x = 1", "where x = 1 or not y = 2", "where y = 2",
                  "where p50(duration) > 5", "where group by x", "where ="}
    THEN where
    ELSE "where " \o where

\* lines 228-267
compileSpanMetricWhere(where) ==
    compileSpanMetricWhereParts(tracingupqlParse(NormalizeWhere(where)))

WhereInputs ==
    { <<WherePart(cs)>> : cs \in CondLists }
        \cup { <<>>, <<GroupPart>>, <<WherePart(<<>>), GroupPart>> }


(***************************************************************************)
(* Token stream (package ast)                                              *)
(***************************************************************************)

\* TokenID, lines 280-286
EOF_TOKEN    == 0
BYTE_TOKEN   == 1
IDENT_TOKEN  == 2
VALUE_TOKEN  == 3
NUMBER_TOKEN == 4

\* line 288
eofToken == [ID |-> EOF_TOKEN, Text |-> <<>>, Start |-> 0]

NoToken == [ID |-> -1, Text |-> <<>>, Start |-> 0]

\* bunlex character classes (package bunlex)
IsWhitespace(c) == c \in {" ", "\t", "\n", "\r"}
IsDigit(c) == c \in {"0", "1", "2", "3", "4", "5", "6", "7", "8", "9"}
IsAlpha(c) ==
    c \in {"a", "b", "c", "d", "e", "f", "g", "h", "i", "j", "k", "l", "m",
           "n", "o", "p", "q", "r", "s", "t", "u", "v", "w", "x", "y", "z",
           "A", "B", "C", "D", "E", "F", "G", "H", "I", "J", "K", "L", "M",
           "N", "O", "P", "Q", "R", "S", "T", "U", "V", "W", "X", "Y", "Z"}
IsAlnum(c) == IsAlpha(c) \/ IsDigit(c)

\* lines 453-455
isIdentChar(c) == IsAlnum(c) \/ c = "_" \/ c = "."

\* bunlex.Lexer over src at offset i: Valid, and the slice src[from:to].
Valid(src, i) == i < Len(src)
Slice(src, from, to) == SubSeq(src, from + 1, to)

\* The state of the lexer a read leaves, with the token or error it returns.
ReadResult(i, toks, tok, err) == [i |-> i, tokens |-> toks, tok |-> tok, err |-> err]

\* lines 435-442: append to the cache, return the appended token.
token(i, toks, id, text, start) ==
    LET tok == [ID |-> id, Text |-> text, Start |-> start]
    IN  ReadResult(i, Append(toks, tok), tok, "")

\* lines 397-400
charToken(src, i, toks, id) == token(i, toks, id, Slice(src, i - 1, i), i - 1)

\* bunlex.Lexer.ReadUnquoted(end) from offset i: the offset of the closing
\* quote, or -1 when the input ends first.
RECURSIVE ClosingQuote(_, _, _)
ClosingQuote(src, i, end) ==
    IF ~Valid(src, i) THEN -1
    ELSE IF src[i + 1] = end THEN i
    ELSE ClosingQuote(src, i + 1, end)

\* lines 402-416
quotedValue(src, i, toks, end) ==
    LET start == i - 1
        close == ClosingQuote(src, i, end)
    IN  IF close < 0
        THEN ReadResult(Len(src), toks, NoToken, "unterminated literal")
        ELSE LET tok == [ID |-> VALUE_TOKEN, Text |-> Slice(src, i, close),
                         Start |-> start]
             IN  ReadResult(close + 1, Append(toks, tok), tok, "")

\* bunlex.Lexer.Number() from offset i: the offset after the digits and an
\* optional fractional part.
RECURSIVE DigitsEnd(_, _)
DigitsEnd(src, i) ==
    IF Valid(src, i) /\ IsDigit(src[i + 1]) THEN DigitsEnd(src, i + 1) ELSE i

NumberEnd(src, i) ==
    LET e == DigitsEnd(src, i)
    IN  IF Valid(src, e) /\ src[e + 1] = "." /\ Valid(src, e + 1) /\ IsDigit(src[e + 2])
        THEN DigitsEnd(src, e + 1)
        ELSE e

\* line 419: token(NUMBER_TOKEN, l.lex.Number(), l.lex.Pos()). Go evaluates
\* the calls in the argument list left to right: Number() has advanced the
\* scanner when Pos() is read.
number(src, i, toks) ==
    LET e == NumberEnd(src, i)
    IN  token(e, toks, NUMBER_TOKEN, Slice(src, i, e), e)

\* lines 422-433
RECURSIVE IdentEnd(_, _)
IdentEnd(src, i) ==
    IF Valid(src, i) /\ isIdentChar(src[i + 1]) THEN IdentEnd(src, i + 1) ELSE i

ident(src, i, toks, start) ==
    LET e == IdentEnd(src, i)
    IN  token(e, toks, IDENT_TOKEN, Slice(src, start, e), start)

\* lines 364-395
RECURSIVE readToken(_, _, _, _)
readToken(src, ign, i, toks) ==
    IF ~Valid(src, i) THEN ReadResult(i, toks, eofToken, "")
    ELSE LET c  == src[i + 1]
             i1 == i + 1
         IN  IF c \in {"'", "\""} THEN quotedValue(src, i1, toks, c)
             ELSE IF c \in {"(", ")", ","} THEN charToken(src, i1, toks, BYTE_TOKEN)
             ELSE IF c \in {"_", "$"} THEN ident(src, i1, toks, i1 - 1)
             ELSE IF ign /\ IsWhitespace(c) THEN readToken(src, ign, i1, toks)
             ELSE IF IsDigit(c) THEN number(src, i1 - 1, toks)
             ELSE IF IsAlpha(c) THEN ident(src, i1, toks, i1 - 1)
             ELSE charToken(src, i1, toks, BYTE_TOKEN)

\* lines 349-354
peekAlwaysReads(src, ign, i, toks, p) == readToken(src, ign, i, toks)
peek(src, ign, i, toks, p) ==
    IF p < Len(toks) THEN ReadResult(i, toks, toks[p + 1], "")
    ELSE readToken(src, ign, i, toks)


\* The sources of the model: an identifier byte, a digit, a space, a quote,
\* punctuation and the fraction point.
Alphabet == {"a", "1", " ", "'", "(", "."}
Sources == UNION { [1..n -> Alphabet] : n \in 0..MaxLen }

NoCall == [op |-> "none", tok |-> NoToken, err |-> "", at |-> 0]

\* lines 317-333: newLexer(s), with or without IgnoreSpaces().
LexInit ==
    /\ s \in Sources
    /\ ignoreSpaces \in BOOLEAN
    /\ lexI = 0
    /\ tokens = <<>>
    /\ pos = 0
    /\ saved = {}
    /\ ret = NoCall
    /\ firstRet = [p \in 0..MaxPos |-> NoToken]

\* lines 349-354
PeekToken ==
    LET r == peek(s, ignoreSpaces, lexI, tokens, pos)
    IN  /\ lexI' = r.i
        /\ tokens' = r.tokens
        /\ ret' = [op |-> "peek", tok |-> r.tok, err |-> r.err, at |-> pos]
        /\ UNCHANGED <<s, ignoreSpaces, pos, saved, firstRet>>

\* lines 340-347
NextToken ==
    /\ pos < MaxPos
    /\ LET r == peek(s, ignoreSpaces, lexI, tokens, pos)
       IN  /\ lexI' = r.i
           /\ tokens' = r.tokens
           /\ ret' = [op |-> "next", tok |-> r.tok, err |-> r.err, at |-> pos]
           /\ pos' = IF r.err # "" THEN pos ELSE pos + 1
           /\ firstRet' = IF r.err = "" /\ firstRet[pos] = NoToken
                          THEN [firstRet EXCEPT ![pos] = r.tok]
                          ELSE firstRet
    /\ UNCHANGED <<s, ignoreSpaces, saved>>

\* lines 356-358: the caller keeps the position to come back to.
Pos ==
    /\ saved' = saved \cup {pos}
    /\ UNCHANGED <<s, ignoreSpaces, lexI, tokens, pos, ret, firstRet>>

\* lines 360-362
ResetPos(p) ==
    /\ pos' = p
    /\ ret' = [op |-> "reset", tok |-> NoToken, err |-> "", at |-> p]
    /\ UNCHANGED <<s, ignoreSpaces, lexI, tokens, saved, firstRet>>

WhereIdle == whereParts = <<>> /\ whereRes = NotRun
MvIdle == mvMetric = <<>> /\ mvRes = <<>>
LexIdle ==
    /\ s = <<>> /\ ignoreSpaces = FALSE /\ lexI = 0 /\ tokens = <<>> /\ pos = 0
    /\ saved = {} /\ ret = NoCall /\ firstRet = <<>>
StoreIdle ==
    /\ views = <<>> /\ metas = {} /\ done = {} /\ made = {} /\ last = <<>>
    /\ initErr = ""

InitLexer == LexInit /\ WhereIdle /\ MvIdle /\ StoreIdle

NextLexer ==
    \/ PeekToken /\ UNCHANGED <<whereVars, mvVars, storeVars>>
    \/ NextToken /\ UNCHANGED <<whereVars, mvVars, storeVars>>
    \/ Pos /\ UNCHANGED <<whereVars, mvVars, storeVars>>
    \/ \E p \in saved : ResetPos(p) /\ UNCHANGED <<whereVars, mvVars, storeVars>>

SpecLexer == InitLexer /\ [][NextLexer]_vars


(***************************************************************************)
(* Metric value, attributes, annotations and the create-view statement     *)
(***************************************************************************)

\* Instrument names (package metrics)
GaugeInstrument     == "gauge"
AdditiveInstrument  == "additive"
CounterInstrument   == "counter"
HistogramInstrument == "histogram"

\* ast.Expr nodes
NameExpr(func, name) == [type |-> "Name", Func |-> func, Name |-> name]
NumberExpr(text)     == [type |-> "Number", Text |-> text]
ParenExpr(e)         == [type |-> "ParenExpr", Expr |-> e]
BinaryExpr(l, op, r) == [type |-> "BinaryExpr", LHS |-> l, Op |-> op, RHS |-> r]
FuncCallExpr         == [type |-> "FuncCall"]

\* A part upql.Parse returns: a Selector around an expression, or another AST.
SelectorPart(e) == [kind |-> "Selector", Expr |-> e]
OtherPart       == [kind |-> "Grouping", Expr |-> FuncCallExpr]

\* tracing.AppendCHColumn(b, name, minutes): external column resolution,
\* here the name as written.
AppendCHColumn(b, name, minutes) == b \o NameText(name)

\* tracing.AppendCHAttrExpr(b, attr): external attribute access.
AppendCHAttrExpr(b, attr) == b \o "s." \o attr

\* chschema.AppendString(b, s): a quoted SQL string.
AppendString(b, str) == b \o "'" \o str \o "'"

\* lines 163-201
RECURSIVE appendSpanMetricExpr(_, _)
appendSpanMetricExpr(b, expr) ==
    IF expr.type = "Name"
    THEN [b |-> AppendCHColumn(b, [FuncName |-> expr.Func, AttrKey |-> expr.Name],
                               spanMetricMinutes),
          err |-> ""]
    ELSE IF expr.type = "Number" THEN [b |-> b \o expr.Text, err |-> ""]
    ELSE IF expr.type = "ParenExpr"
    THEN LET r == appendSpanMetricExpr(b \o "(", expr.Expr)
         IN  IF r.err # "" THEN [b |-> "", err |-> r.err]
             ELSE [b |-> r.b \o ")", err |-> ""]
    ELSE IF expr.type = "BinaryExpr"
    THEN LET l == appendSpanMetricExpr(b, expr.LHS)
         IN  IF l.err # "" THEN [b |-> "", err |-> l.err]
             ELSE LET r == appendSpanMetricExpr(l.b \o " " \o expr.Op \o " ", expr.RHS)
                  IN  IF r.err # "" THEN [b |-> "", err |-> r.err] ELSE r
    ELSE [b |-> "", err |-> "unsupported span metric expr"]

\* upql.Parse(value), on the values the modelled metrics use.
upqlParse(value) ==
    IF value = "p50(span.duration)"
    THEN <<SelectorPart(NameExpr("p50", "span.duration"))>>
    ELSE IF value = "(a + 3.14)"
    THEN <<SelectorPart(ParenExpr(BinaryExpr(NameExpr("", "a"), "+", NumberExpr("3.14"))))>>
    ELSE IF value = "a / f(b)"
    THEN <<SelectorPart(BinaryExpr(NameExpr("", "a"), "/", FuncCallExpr))>>
    ELSE IF value = "group by a" THEN <<OtherPart>>
    ELSE IF value = "a | b"
    THEN <<SelectorPart(NameExpr("", "a")), SelectorPart(NameExpr("", "b"))>>
    ELSE <<>>

\* lines 142-161
compileSpanMetricValue(value) ==
    LET parts == upqlParse(value) IN
    IF Len(parts) # 1 THEN [b |-> "", err |-> "can't parse metric value"]
    ELSE IF parts[1].kind # "Selector"
         THEN [b |-> "", err |-> "unsupported metric value AST"]
         ELSE appendSpanMetricExpr("", parts[1].Expr)

\* lines 203-212
RECURSIVE compileSpanMetricAttrsFrom(_, _, _)
compileSpanMetricAttrsFrom(attrs, i, b) ==
    IF i > Len(attrs) THEN b
    ELSE compileSpanMetricAttrsFrom(attrs, i + 1,
            AppendCHAttrExpr(IF i > 1 THEN b \o ", " ELSE b, attrs[i]))

compileSpanMetricAttrs(attrs) == compileSpanMetricAttrsFrom(attrs, 1, "")

\* lines 214-226
RECURSIVE compileSpanMetricAnnotationsFrom(_, _, _)
compileSpanMetricAnnotationsFrom(attrs, i, b) ==
    IF i > Len(attrs) THEN b
    ELSE compileSpanMetricAnnotationsFrom(attrs, i + 1,
            AppendCHAttrExpr(
                AppendString(IF i > 1 THEN b \o ", " ELSE b, attrs[i])
                    \o ", toString(any(",
                attrs[i]) \o "))")

compileSpanMetricAnnotations(attrs) == compileSpanMetricAnnotationsFrom(attrs, 1, "")

\* ch.In(attrs): the attribute keys as a list of SQL strings.
RECURSIVE InList(_, _, _)
InList(attrs, i, b) ==
    IF i > Len(attrs) THEN b
    ELSE InList(attrs, i + 1, AppendString(IF i > 1 THEN b \o ", " ELSE b, attrs[i]))

\* The text of a sequence of bytes.
RECURSIVE Text(_)
Text(bytes) == IF bytes = <<>> THEN "" ELSE Head(bytes) \o Text(Tail(bytes))

\* strings.ReplaceAll(name, ".", "_")
ReplaceAllDots(bytes) ==
    [k \in DOMAIN bytes |-> IF bytes[k] = "." THEN "_" ELSE bytes[k]]

\* line 69
viewName(name) == "metrics_" \o Text(ReplaceAllDots(name)) \o "_mv"

Column(expr, alias) == [expr |-> expr, alias |-> alias]

\* lines 120-133: the value columns of the instrument, or the error.
instrumentColumnsCounterAsValue(instrument, valueExpr) ==
    IF instrument \in {GaugeInstrument, AdditiveInstrument, CounterInstrument}
    THEN [cols |-> <<Column(valueExpr, "value")>>, err |-> ""]
    ELSE IF instrument = HistogramInstrument
    THEN [cols |-> << Column("count()", "count"),
                      Column("sum(" \o valueExpr \o ")", "sum"),
                      Column("quantilesBFloat16State(0.5)(toFloat32("
                                 \o valueExpr \o "))", "histogram") >>,
          err |-> ""]
    ELSE [cols |-> <<>>, err |-> "unsupported instrument"]
instrumentColumnsNoDefault(instrument, valueExpr) ==
    IF instrument = CounterInstrument
    THEN [cols |-> <<Column(valueExpr, "sum")>>, err |-> ""]
    ELSE IF instrument = HistogramInstrument
    THEN [cols |-> << Column("count()", "count"),
                      Column("sum(" \o valueExpr \o ")", "sum"),
                      Column("quantilesBFloat16State(0.5)(toFloat32("
                                 \o valueExpr \o "))", "histogram") >>,
          err |-> ""]
    ELSE [cols |-> <<Column(valueExpr, "value")>>, err |-> ""]
instrumentColumns(instrument, valueExpr) ==
    IF instrument = GaugeInstrument
    THEN [cols |-> <<Column(valueExpr, "value")>>, err |-> ""]
    ELSE IF instrument = AdditiveInstrument
    THEN [cols |-> <<Column(valueExpr, "value")>>, err |-> ""]
    ELSE IF instrument = CounterInstrument
    THEN [cols |-> <<Column(valueExpr, "sum")>>, err |-> ""]
    ELSE IF instrument = HistogramInstrument
    THEN [cols |-> << Column("count()", "count"),
                      Column("sum(" \o valueExpr \o ")", "sum"),
                      Column("quantilesBFloat16State(0.5)(toFloat32("
                                 \o valueExpr \o "))", "histogram") >>,
          err |-> ""]
    ELSE [cols |-> <<>>, err |-> "unsupported instrument"]

NoQuery == [view |-> "", metric |-> "", columns |-> <<>>, groups |-> <<>>, where |-> ""]
BuildError(err) == [err |-> err, q |-> NoQuery]

\* lines 96-103
attrColumns(metric) ==
    IF Len(metric.Attrs) > 0
    THEN LET attrsExpr == compileSpanMetricAttrs(metric.Attrs)
         IN  << Column("xxHash64(arrayStringConcat([" \o attrsExpr \o "], '-'))",
                       "attrs_hash"),
                Column("[" \o InList(metric.Attrs, 1, "") \o "]", "attr_keys"),
                Column("[" \o attrsExpr \o "]", "attr_values") >>
    ELSE <<>>

attrGroups(metric) ==
    IF Len(metric.Attrs) > 0 THEN <<compileSpanMetricAttrs(metric.Attrs)>> ELSE <<>>

\* lines 105-108
annotationColumns(metric) ==
    IF Len(metric.Annotations) > 0
    THEN <<Column("toJSONString(map("
                      \o compileSpanMetricAnnotations(metric.Annotations) \o "))",
                  "annotations")>>
    ELSE <<>>

\* lines 79-133: the create-view statement q of the metric, or the first
\* error.
buildView(metric) ==
    LET value == compileSpanMetricValue(metric.Value)
    IN  IF value.err # "" THEN BuildError(value.err)
        ELSE
        LET base == << Column("s.project_id", ""),
                       Column(AppendString("", Text(metric.Name)), "metric"),
                       Column("toStartOfMinute(s.time)", "time"),
                       Column(AppendString("", metric.Instrument), "instrument") >>
            where == IF metric.Where # "" THEN compileSpanMetricWhere(metric.Where)
                     ELSE [out |-> "", err |-> ""]
        IN  IF where.err # "" THEN BuildError(where.err)
            ELSE
            LET value_cols == instrumentColumns(metric.Instrument, value.b)
            IN  IF value_cols.err # "" THEN BuildError(value_cols.err)
                ELSE [err |-> "",
                      q |-> [view |-> viewName(metric.Name),
                             metric |-> Text(metric.Name),
                             columns |-> base \o attrColumns(metric)
                                             \o annotationColumns(metric)
                                             \o value_cols.cols,
                             groups |-> <<"s.project_id, toStartOfMinute(s.time)">>
                                            \o attrGroups(metric),
                             where |-> where.out]]

(***************************************************************************)
(* createMatView's statement as a function of the metric                   *)
(***************************************************************************)

NameAB  == <<"a", ".", "b">>
NameA_B == <<"a", "_", "b">>
NameC   == <<"c">>

Instruments ==
    {GaugeInstrument, AdditiveInstrument, CounterInstrument, HistogramInstrument}

Values == {"p50(span.duration)", "(a + 3.14)", "a / f(b)", "group by a", "a | b", ""}

Wheres == {"", "x = 1", "where x = 1 or not y = 2", "y = 2", "p50(duration) > 5",
           "group by x", "="}

MvMetrics ==
    [Name : {NameAB, NameC},
     Instrument : Instruments \cup {"bogus"},
     Value : Values,
     Attrs : {<<>>, <<"a", "b">>},
     Annotations : {<<>>, <<"k">>},
     Where : Wheres]

NoBuild == [err |-> "not built", q |-> NoQuery]

InitView ==
    /\ mvMetric \in MvMetrics
    /\ mvRes = NoBuild
    /\ WhereIdle /\ LexIdle /\ StoreIdle

BuildView ==
    /\ mvRes = NoBuild
    /\ mvRes' = buildView(mvMetric)
    /\ UNCHANGED <<mvMetric, whereVars, lexVars, storeVars>>

NextView == BuildView

SpecView == InitView /\ [][NextView]_vars

(***************************************************************************)
(* initSpanMetrics against the store                                       *)
(***************************************************************************)

\* app.Config().Projects
Projects == <<1, 2>>

NoView == [view |-> "", metric |-> "", columns |-> <<>>, groups |-> <<>>,
           where |-> "none"]
\* A view left by an earlier run of the program.
OldView(vn) == [view |-> vn, metric |-> "", columns |-> <<>>, groups |-> <<>>,
                where |-> "old"]

\* The metrics a config may list, and the store statement that may fail.
StoreMetrics ==
    [Name : {NameAB, NameA_B, NameC, <<>>},
     Instrument : {"", GaugeInstrument, CounterInstrument, HistogramInstrument, "bogus"},
     Value : {"p50(span.duration)", "a / f(b)", "group by a", ""},
     Attrs : {<<>>},
     Annotations : {<<>>},
     Where : {"", "x = 1", "p50(duration) > 5", "="}]

ViewNames == { viewName(m.Name) : m \in {x \in StoreMetrics : x.Name # <<>>} }

Failures ==
    {[stmt |-> "none", at |-> 0], [stmt |-> "drop view", at |-> 0],
     [stmt |-> "create view", at |-> 0]}
        \cup { [stmt |-> "upsert", at |-> k] : k \in 1..Len(Projects) }

\* UpsertMetric: the record of (project, name) is written or replaced.
UpsertMetric(ms, project, metric) ==
    { r \in ms : ~(r.ProjectID = project /\ r.Name = Text(metric.Name)) }
        \cup { [ProjectID |-> project, Name |-> Text(metric.Name),
                Instrument |-> metric.Instrument] }

\* lines 49-65: one upsert per project, stopping at the first that fails.
RECURSIVE createSpanMetricMeta(_, _, _, _, _)
createSpanMetricMeta(metric, fail, i, ms, stmts) ==
    IF i > Len(Projects) THEN [err |-> "", metas |-> ms, stmts |-> stmts]
    ELSE IF fail.stmt = "upsert" /\ fail.at = i
         THEN [err |-> "store", metas |-> ms, stmts |-> Append(stmts, "upsert")]
         ELSE createSpanMetricMeta(metric, fail, i + 1,
                                   UpsertMetric(ms, Projects[i], metric),
                                   Append(stmts, "upsert"))

\* lines 67-140
createMatView(metric, fail, vs, stmts) ==
    LET vn == viewName(metric.Name)
        s1 == Append(stmts, "drop view")
    IN  IF fail.stmt = "drop view" THEN [err |-> "store", views |-> vs, stmts |-> s1]
        ELSE
        LET dropped == [vs EXCEPT ![vn] = NoView]
            built   == buildView(metric)
        IN  IF built.err # "" THEN [err |-> built.err, views |-> dropped, stmts |-> s1]
            ELSE IF fail.stmt = "create view"
            THEN [err |-> "store", views |-> dropped,
                  stmts |-> Append(s1, "create view")]
            ELSE [err |-> "", views |-> [dropped EXCEPT ![vn] = built.q],
                  stmts |-> Append(s1, "create view")]

\* lines 35-47
createSpanMetric(metric, fail, vs, ms) ==
    IF metric.Instrument = ""
    THEN [err |-> "metric instrument can't be empty", views |-> vs, metas |-> ms,
          stmts |-> <<>>]
    ELSE
    LET meta == createSpanMetricMeta(metric, fail, 1, ms, <<>>)
    IN  IF meta.err # ""
        THEN [err |-> meta.err, views |-> vs, metas |-> meta.metas,
              stmts |-> meta.stmts]
        ELSE LET mv == createMatView(metric, fail, vs, meta.stmts)
             IN  [err |-> mv.err, views |-> mv.views, metas |-> meta.metas,
                  stmts |-> mv.stmts]

NoMetric == [Name |-> <<>>, Instrument |-> "", Value |-> "", Attrs |-> <<>>,
             Annotations |-> <<>>, Where |-> ""]
NoLast == [metric |-> NoMetric, err |-> "", stmts |-> <<>>]

InitStore ==
    /\ views \in { [vn \in ViewNames |-> IF vn \in old THEN OldView(vn) ELSE NoView] :
                      old \in SUBSET ViewNames }
    /\ metas = {}
    /\ done = {}
    /\ made = {}
    /\ last = NoLast
    /\ initErr = "running"

Init == InitStore /\ WhereIdle /\ MvIdle /\ LexIdle

\* lines 22-31, one turn of the loop: the next metric of the config has a
\* name and createSpanMetric is called on it.
CreateSpanMetricStep(metric, fail) ==
    /\ initErr = "running"
    /\ metric.Name # <<>>
    /\ metric.Name \notin done
    /\ LET r == createSpanMetric(metric, fail, views, metas)
       IN  /\ views' = r.views
           /\ metas' = r.metas
           /\ last' = [metric |-> metric, err |-> r.err, stmts |-> r.stmts]
           /\ made' = IF r.err = "" THEN made \cup {metric.Name} ELSE made
           /\ initErr' = IF r.err = "" THEN "running" ELSE "createSpanMetric failed"
    /\ done' = done \cup {metric.Name}

\* lines 25-27: the next metric of the config has no name.
EmptyName(metric) ==
    /\ initErr = "running"
    /\ metric.Name = <<>>
    /\ initErr' = "metric name can't be empty"
    /\ UNCHANGED <<views, metas, done, made, last>>

\* line 32: the config is exhausted.
ReturnNil ==
    /\ initErr = "running"
    /\ initErr' = "nil"
    /\ UNCHANGED <<views, metas, done, made, last>>

Next ==
    \/ \E metric \in StoreMetrics, fail \in Failures :
          CreateSpanMetricStep(metric, fail) /\ UNCHANGED <<whereVars, mvVars, lexVars>>
    \/ \E metric \in StoreMetrics :
          EmptyName(metric) /\ UNCHANGED <<whereVars, mvVars, lexVars>>
    \/ ReturnNil /\ UNCHANGED <<whereVars, mvVars, lexVars>>

Spec == Init /\ [][Next]_vars

(***************************************************************************)
(* compileSpanMetricWhere as a function of the parsed clause               *)
(***************************************************************************)

InitWhere ==
    /\ whereParts \in WhereInputs
    /\ whereRes = NotRun
    /\ MvIdle /\ LexIdle /\ StoreIdle

CompileWhere ==
    /\ whereRes = NotRun
    /\ whereRes' = compileSpanMetricWhereParts(whereParts)
    /\ UNCHANGED <<whereParts, mvVars, lexVars, storeVars>>

NextWhere == CompileWhere

SpecWhere == InitWhere /\ [][NextWhere]_vars


\* ---- the clause compiled, seen from the claims

WhereRan == whereRes # NotRun
WhereWellFormed == Len(whereParts) = 1 /\ whereParts[1].kind = "Where"
WhereConds == whereParts[1].Conds

Survives(cond) == ~CompileCond(cond, spanMetricMinutes).isNil
Survivors == SelectSeq(WhereConds, Survives)
FragmentOf(cond) == CompileCond(cond, spanMetricMinutes).bytes

\* The text one surviving condition contributes as the k-th survivor.
Piece(cond, k) ==
    (IF k = 1 THEN "" ELSE cond.Sep.Op \o " ")
        \o (IF cond.Sep.Negate THEN "NOT " ELSE "")
        \o FragmentOf(cond)

RECURSIVE JoinPieces(_, _)
JoinPieces(sv, k) ==
    IF k > Len(sv) THEN "" ELSE Piece(sv[k], k) \o JoinPieces(sv, k + 1)

AggAt(i) == IsAggColumn(WhereConds[i].Left)

\* C1: every condition list holding a condition whose left side is an
\* aggregate column compiles to the aggregate-in-filter error and no
\* fragment, wherever the condition stands and whether or not its own
\* compiled fragment is empty.
C1_AggregateAlwaysRejected ==
    (WhereRan /\ WhereWellFormed) =>
        \A i \in 1..Len(WhereConds) :
            AggAt(i) =>
                /\ whereRes.err = "can't filter by agg columns"
                /\ whereRes.out = ""

\* C2: the clause is a left fold over the surviving conditions: skipped
\* conditions contribute nothing, every survivor after the first is preceded
\* by its operator and a space, a negated survivor by NOT, the first
\* survivor by no operator; all skipped gives the empty string and no error.
C2_LeftFold ==
    (WhereRan /\ WhereWellFormed) =>
        /\ whereRes.err = "" => whereRes.out = JoinPieces(Survivors, 1)
        /\ Survivors = <<>> => whereRes = [out |-> "", err |-> ""]

C2_Witness ==
    /\ WhereRan /\ WhereWellFormed /\ whereRes.err = ""
    /\ Len(WhereConds) = 3
    /\ ~Survives(WhereConds[1])
    /\ Len(Survivors) = 2
    /\ Survivors[1].Sep.Op = OrOp
    /\ Survivors[2].Sep.Negate
    /\ whereRes.out = "x = 1 AND NOT y = 2"

FirstSurvivor == CHOOSE i \in 1..Len(WhereConds) :
    /\ Survives(WhereConds[i])
    /\ \A j \in 1..(i - 1) : ~Survives(WhereConds[j])

\* The clause with the separator of its first surviving condition replaced.
WithFirstSep(sep) ==
    <<WherePart([WhereConds EXCEPT ![FirstSurvivor].Sep = sep])>>

ExampleClause ==
    <<WherePart(<< CondX([Op |-> AndOp, Negate |-> FALSE]),
                   CondY([Op |-> OrOp, Negate |-> TRUE], "text") >>)>>

\* C3 as stated: the output begins with the first surviving condition's own
\* fragment, whatever its separator holds (operator and negate flag).
C3_FirstSeparatorIgnored ==
    (WhereRan /\ WhereWellFormed /\ whereRes.err = "" /\ Survivors # <<>>) =>
        whereRes.out = FragmentOf(Survivors[1]) \o JoinPieces(Survivors, 2)

\* C3 as amended: the logical operator of the first surviving condition's
\* separator is ignored, its negate flag is not: the output begins with the
\* condition's fragment when the flag is clear and with NOT and the fragment
\* when it is set. The example clause compiles to "x = 1 OR NOT y = 2".
C3_FirstOperatorIgnored ==
    /\ (WhereRan /\ WhereWellFormed /\ whereRes.err = "" /\ Survivors # <<>>) =>
        LET first == Survivors[1]
            plain == compileSpanMetricWhereParts(
                        WithFirstSep([first.Sep EXCEPT !.Negate = FALSE])).out
        IN  /\ \A op \in {AndOp, OrOp} :
                  compileSpanMetricWhereParts(
                      WithFirstSep([first.Sep EXCEPT !.Op = op])) = whereRes
            /\ plain = FragmentOf(first) \o JoinPieces(Survivors, 2)
            /\ whereRes.out = (IF first.Sep.Negate THEN "NOT " ELSE "") \o plain
    /\ (WhereRan /\ whereParts = ExampleClause) =>
        whereRes = [out |-> "x = 1 OR NOT y = 2", err |-> ""]

C3_Witness ==
    /\ WhereRan /\ WhereWellFormed /\ whereRes.err = ""
    /\ Len(Survivors) = 2
    /\ Survivors[1].Sep = [Op |-> OrOp, Negate |-> TRUE]
    /\ whereRes.out = "NOT x = 1 AND y = 2"


\* ---- the token stream, seen from the claims

IsPrefix(a, b) == Len(a) <= Len(b) /\ SubSeq(b, 1, Len(a)) = a

\* C6: in every state reached by PeekToken, NextToken and ResetPos to a
\* position Pos returned, the cursor is within the cache: pos <= len(tokens).
C6_PosWithinCache == pos <= Len(tokens)

Quotes == {"'", "\""}

\* C9: every token of the cache carries the offset of its first byte: the
\* source from Start holds the text of a Byte, Ident or Number token, and the
\* opening quote of a quoted value.
C9_StartIsFirstByte ==
    \A k \in 1..Len(tokens) :
        LET tok == tokens[k]
        IN  /\ tok.ID \in {BYTE_TOKEN, IDENT_TOKEN, NUMBER_TOKEN} =>
                /\ tok.Start + Len(tok.Text) <= Len(s)
                /\ Slice(s, tok.Start, tok.Start + Len(tok.Text)) = tok.Text
            /\ tok.ID = VALUE_TOKEN =>
                /\ tok.Start < Len(s)
                /\ s[tok.Start + 1] \in Quotes

\* One step of the token stream that replays and does not lex again.
C7_ReplayStep ==
    /\ IsPrefix(tokens, tokens')
    /\ ret'.op = "reset" => (tokens' = tokens /\ lexI' = lexI /\ s' = s)
    /\ (ret'.op = "next" /\ ret'.err = "" /\ firstRet[ret'.at] # NoToken) =>
            ret'.tok = firstRet[ret'.at]
    /\ (ret.op = "peek" /\ ret'.op = "peek" /\ ret.err = "" /\ ret'.err = "") =>
            (ret'.tok = ret.tok /\ tokens' = tokens)
    /\ ret'.op = "peek" => Len(tokens') <= Len(tokens) + 1

\* C7: backtracking replays the cache and never lexes again. In every step:
\* the cache only grows at its end; ResetPos changes the cursor alone;
\* NextToken at a position consumed before returns the token it returned
\* there the first time; a PeekToken that follows a PeekToken returns the
\* same token and leaves the cache as it is, and no peek appends more than
\* one token.
C7_Replay == [][C7_ReplayStep]_vars

\* A NextToken that replayed a cached token after a rewind: the position
\* after it had been consumed before.
C7_Witness ==
    /\ ret.op = "next" /\ ret.err = ""
    /\ ret.tok.ID = IDENT_TOKEN
    /\ pos < Len(tokens)
    /\ firstRet[pos] # NoToken
    /\ saved # {}


\* ---- the statement built and the store, seen from the claims

ValueAliases == {"value", "sum", "count", "histogram"}
IsValueColumn(col) == col.alias \in ValueAliases
Aliases(cols) == [k \in DOMAIN cols |-> cols[k].alias]

ShapeOf(instrument) ==
    IF instrument = HistogramInstrument THEN <<"count", "sum", "histogram">>
    ELSE IF instrument = CounterInstrument THEN <<"sum">>
    ELSE <<"value">>

\* C8: the value columns of a metric that compiles are those of its
\* instrument, in order: count, sum, histogram for Histogram, sum for
\* Counter, value for Gauge and Additive; the statement holds no other value
\* column, whatever the attrs, annotations and where of the metric.
C8_InstrumentShape ==
    (mvRes # NoBuild /\ mvRes.err = "") =>
        LET cols  == mvRes.q.columns
            shape == ShapeOf(mvMetric.Instrument)
            other == 4   \* project_id, metric, time, instrument
                        + (IF mvMetric.Attrs # <<>> THEN 3 ELSE 0)
                        + (IF mvMetric.Annotations # <<>> THEN 1 ELSE 0)
        IN  /\ mvMetric.Instrument \in Instruments
            /\ Aliases(SelectSeq(cols, IsValueColumn)) = shape
            /\ Len(cols) = other + Len(shape)
            /\ Aliases(SubSeq(cols, other + 1, Len(cols))) = shape

C8_Witness ==
    /\ mvRes # NoBuild /\ mvRes.err = ""
    /\ mvMetric.Instrument = HistogramInstrument
    /\ mvMetric.Attrs # <<>> /\ mvMetric.Annotations # <<>>
    /\ mvRes.q.where = "x = 1 OR NOT y = 2"
    /\ Len(mvRes.q.columns) = 11

CompileErrors ==
    {"can't parse metric value", "unsupported metric value AST",
     "unsupported span metric expr", "can't parse metric where",
     "can't filter by agg columns", "unsupported instrument"}

RECURSIVE HasUnsupportedNode(_)
HasUnsupportedNode(expr) ==
    IF expr.type \in {"Name", "Number"} THEN FALSE
    ELSE IF expr.type = "ParenExpr" THEN HasUnsupportedNode(expr.Expr)
    ELSE IF expr.type = "BinaryExpr"
    THEN HasUnsupportedNode(expr.LHS) \/ HasUnsupportedNode(expr.RHS)
    ELSE TRUE

\* The metric's value does not parse to one Selector of supported nodes.
ValueBad(m) ==
    LET parts == upqlParse(m.Value)
    IN  \/ Len(parts) # 1
        \/ parts[1].kind # "Selector"
        \/ HasUnsupportedNode(parts[1].Expr)

\* The metric's where does not parse, or filters by an aggregate column.
WhereBad(m) ==
    /\ m.Where # ""
    /\ LET parts == tracingupqlParse(NormalizeWhere(m.Where))
       IN  \/ Len(parts) # 1
           \/ parts[1].kind # "Where"
           \/ \E i \in 1..Len(parts[1].Conds) :
                 /\ IsAggColumn(parts[1].Conds[i].Left)
                 /\ Survives(parts[1].Conds[i])

InstrumentBad(m) == m.Instrument \notin Instruments

Range(seq) == { seq[k] : k \in DOMAIN seq }

Called == last # NoLast

\* C4: when the metric of a createSpanMetric call fails at a compile stage
\* (value not one Selector, unsupported node, where that does not parse,
\* aggregate column in the filter, instrument outside the four), no
\* create-view statement is executed for it, the store holds no view of the
\* metric, and the error returned is that of the first failing stage.
C4_NoViewOnCompileFailure ==
    Called =>
        LET m == last.metric
            reachedCompile ==
                last.err \notin {"store", "metric instrument can't be empty"}
        IN  (last.err \in CompileErrors \/ ValueBad(m) \/ WhereBad(m) \/ InstrumentBad(m)) =>
                /\ last.err # ""
                /\ "create view" \notin Range(last.stmts)
                /\ views[viewName(m.Name)].metric # Text(m.Name)
                /\ m.Name \notin made
                /\ (reachedCompile /\ ValueBad(m)) =>
                        last.err \in {"can't parse metric value",
                                      "unsupported metric value AST",
                                      "unsupported span metric expr"}
                /\ (reachedCompile /\ ~ValueBad(m) /\ WhereBad(m)) =>
                        last.err \in {"can't parse metric where",
                                      "can't filter by agg columns"}
                /\ (reachedCompile /\ ~ValueBad(m) /\ ~WhereBad(m)) =>
                        last.err = "unsupported instrument"

C4_Witness ==
    /\ Called
    /\ last.metric.Instrument = "bogus"
    /\ ~ValueBad(last.metric) /\ ~WhereBad(last.metric)
    /\ last.err = "unsupported instrument"
    /\ last.stmts = <<"upsert", "upsert", "drop view">>

\* One loop turn that leaves the views of the other metrics alone.
C5_OtherViewsKeptStep ==
    \A a \in made :
        (done' # done /\ last'.metric.Name # a) =>
            views'[viewName(a)] = views[viewName(a)]

\* C5: a createSpanMetric call for one metric leaves the view made for
\* every other metric of the config (names pairwise distinct) as it is: it
\* is not dropped, replaced or altered.
C5_OtherViewsKept == [][C5_OtherViewsKeptStep]_vars

\* One loop turn that changes the store only when the metric compiles.
C10_FailureKeepsStoreStep ==
    (done' # done /\ last'.err \in CompileErrors) =>
        (views' = views /\ metas' = metas)

\* C10: a createSpanMetric call that returns a compile error leaves the
\* store as it was: the views and the metric records are unchanged.
C10_FailureKeepsStore == [][C10_FailureKeepsStoreStep]_vars

=============================================================================
